---- MODULE Spec2Model ----
(***************************************************************************)
(* Model of minecraft-2d: the world/state engine (src/lib.rs, tiles.rs,    *)
(* items.rs, inventory.rs, utils.rs) and the game loop driver              *)
(* (src/game_loop.rs) running against an abstract Platform.                *)
(*                                                                         *)
(* Three specifications share the variables:                               *)
(*   Spec      the turn engine: State::new() followed by any sequence of   *)
(*             on_input calls;                                             *)
(*   LoopSpec  start_game: init, load, {draw, ask_for_input, on_input,     *)
(*             save}, cleanup, with every platform call free to fail;      *)
(*   InvSpec   an Inventory under any sequence of insert, remove, first,   *)
(*             next and prev calls.                                        *)
(***************************************************************************)
EXTENDS Integers, Sequences, FiniteSets, TLC

VARIABLES
    walls,       \* the positions where the terrain generator yields WallFull
    state,       \* the State struct
    status,      \* "running", "quit" (on_input returned None) or "panic"
    last_input,  \* history: the input of the last turn
    pre,         \* history: the State before the last turn
    pc,          \* game loop: the next platform call of start_game
    log,         \* game loop: the platform calls made so far, in order
    disk,        \* game loop: the save file, NoSave or a persisted State
    loop_res,    \* game loop: the result of start_game_actual
    ret          \* game loop: the value start_game returned

vars == <<walls, state, status, last_input, pre, pc, log, disk, loop_res, ret>>

(***************************************************************************)
(* Bounds of the model.                                                    *)
(***************************************************************************)
\* the player stays within |x| + |y| <= MaxCoord
MaxCoord == 1
\* the tile store holds at most MaxStore entries
MaxStore == 2
\* the game loop makes at most MaxCalls platform calls before cleanup
MaxCalls == 8
\* the inventory holds at most MaxCount units of an item
MaxCount == 2

\* the cells near the origin where the generator may yield a wall
WallCandidates == {<<0, 1>>}
(***************************************************************************)
(* utils.rs: Pos, Dir                                                      *)
(***************************************************************************)
Dirs == {"Up", "Down", "Left", "Right"}

Abs(n) == IF n < 0 THEN -n ELSE n

Region(r) == {p \in (-r..r) \X (-r..r) : Abs(p[1]) + Abs(p[2]) <= r}

\* the cells the player can stand on, and those it can see, dig or build on
PlayerCells == Region(MaxCoord)
WorldCells == Region(MaxCoord + 1)

add(pos, dir) ==
    CASE dir = "Up" -> <<pos[1], pos[2] - 1>>
      [] dir = "Down" -> <<pos[1], pos[2] + 1>>
      [] dir = "Left" -> <<pos[1] - 1, pos[2]>>
      [] dir = "Right" -> <<pos[1] + 1, pos[2]>>

(***************************************************************************)
(* input.rs, lib.rs: Input, IsShift, Menu                                  *)
(***************************************************************************)
Shifts == {"Yes", "No"}

DirInput(dir, shift) == <<"Dir", dir, shift>>
Build == <<"Build">>
Quit == <<"Quit">>
OpenInventory == <<"OpenInventory">>
CloseMenu == <<"CloseMenu">>
NoInput == <<"NoInput">>

Inputs ==
    {DirInput(d, sh) : d \in Dirs, sh \in Shifts}
        \cup {Build, Quit, OpenInventory, CloseMenu}

Menus == {"None", "Inventory"}

(***************************************************************************)
(* tiles.rs, items.rs                                                      *)
(***************************************************************************)
Items == {"Wall", "Wood"}
NoItem == "None"

\* Item::to_tile builds Wood(5)
WoodStages == 5

Empty == [kind |-> "Empty", n |-> 0]
WallFull == [kind |-> "WallFull", n |-> 0]
WallHalf == [kind |-> "WallHalf", n |-> 0]
WallLow == [kind |-> "WallLow", n |-> 0]
Wood(n) == [kind |-> "Wood", n |-> n]

Tiles == {Empty, WallFull, WallHalf, WallLow} \cup {Wood(n) : n \in 0..WoodStages}

BreakTile(t) == [kind |-> "Tile", tile |-> t]
BreakItem(i) == [kind |-> "Item", item |-> i]
CannotBeBroken == [kind |-> "CannotBeBroken"]

\* mutant: a WallHalf already yields the item
breaks_into_half_gives_item(tile) ==
    CASE tile = WallFull -> BreakTile(WallHalf)
      [] tile = WallHalf -> BreakItem("Wall")
      [] tile = WallLow -> BreakItem("Wall")
      [] tile = Empty -> CannotBeBroken
      [] tile.kind = "Wood" /\ tile.n = 0 -> BreakItem("Wood")
      [] tile.kind = "Wood" /\ tile.n > 0 -> BreakTile(Wood(tile.n - 1))

\* mutant: a WallFull breaks straight into WallLow
breaks_into_skips_half(tile) ==
    CASE tile = WallFull -> BreakTile(WallLow)
      [] tile = WallHalf -> BreakTile(WallLow)
      [] tile = WallLow -> BreakItem("Wall")
      [] tile = Empty -> CannotBeBroken
      [] tile.kind = "Wood" /\ tile.n = 0 -> BreakItem("Wood")
      [] tile.kind = "Wood" /\ tile.n > 0 -> BreakTile(Wood(tile.n - 1))

breaks_into(tile) ==
    CASE tile = WallFull -> BreakTile(WallHalf)
      [] tile = WallHalf -> BreakTile(WallLow)
      [] tile = WallLow -> BreakItem("Wall")
      [] tile = Empty -> CannotBeBroken
      [] tile.kind = "Wood" /\ tile.n = 0 -> BreakItem("Wood")
      [] tile.kind = "Wood" /\ tile.n > 0 -> BreakTile(Wood(tile.n - 1))

tile_name(tile) ==
    CASE tile = Empty -> "empty"
      [] tile = WallFull -> "wall"
      [] tile = WallHalf -> "broken wall"
      [] tile = WallLow -> "very broken wall"
      [] tile.kind = "Wood" -> "wood"

item_name(item) ==
    CASE item = "Wall" -> "wall"
      [] item = "Wood" -> "wood"

\* Option<Tile>: every item is placeable
to_tile(item) ==
    CASE item = "Wall" -> [some |-> TRUE, tile |-> WallFull]
      [] item = "Wood" -> [some |-> TRUE, tile |-> Wood(WoodStages)]

(***************************************************************************)
(* inventory.rs: the HashMap<Item, usize> is the sequence of its entries   *)
(* in iteration order.                                                     *)
(***************************************************************************)
Entry(item, count) == [item |-> item, count |-> count]

inventory_new == << >>

contains_key(inv, item) == \E k \in 1..Len(inv) : inv[k].item = item

index_of(inv, item) == CHOOSE k \in 1..Len(inv) : inv[k].item = item

count_of(inv, item) ==
    IF contains_key(inv, item) THEN inv[index_of(inv, item)].count ELSE 0

\* the places a new key can take in the iteration order: its hash decides
HashSlots(inv) == 0..Len(inv)

\* a new key lands after slot of the entries already there, which keep
\* their relative order
insert(inv, item, slot) ==
    IF contains_key(inv, item)
    THEN [inv EXCEPT ![index_of(inv, item)].count = @ + 1]
    ELSE SubSeq(inv, 1, slot) \o <<Entry(item, 1)>> \o SubSeq(inv, slot + 1, Len(inv))

\* mutant: the entry stays in the map when its count reaches 0
remove_keeps_empty_entry(inv, item) ==
    IF contains_key(inv, item)
    THEN LET k == index_of(inv, item)
         IN  IF ~(inv[k].count > 0)
             THEN [res |-> "Panic", inv |-> inv]
             ELSE [res |-> "Ok", inv |-> [inv EXCEPT ![k].count = @ - 1]]
    ELSE [res |-> "HasNone", inv |-> inv]

\* mutant: removing an absent item is answered Ok
remove_absent_is_ok(inv, item) ==
    IF contains_key(inv, item)
    THEN LET k == index_of(inv, item)
         IN  IF ~(inv[k].count > 0)
             THEN [res |-> "Panic", inv |-> inv]
             ELSE IF inv[k].count - 1 = 0
                  THEN [res |-> "Ok",
                        inv |-> SubSeq(inv, 1, k - 1) \o SubSeq(inv, k + 1, Len(inv))]
                  ELSE [res |-> "Ok", inv |-> [inv EXCEPT ![k].count = @ - 1]]
    ELSE [res |-> "Ok", inv |-> inv]

remove(inv, item) ==
    IF contains_key(inv, item)
    THEN LET k == index_of(inv, item)
         IN  IF ~(inv[k].count > 0)
             THEN [res |-> "Panic", inv |-> inv]
             ELSE IF inv[k].count - 1 = 0
                  THEN [res |-> "Ok",
                        inv |-> SubSeq(inv, 1, k - 1) \o SubSeq(inv, k + 1, Len(inv))]
                  ELSE [res |-> "Ok", inv |-> [inv EXCEPT ![k].count = @ - 1]]
    ELSE [res |-> "HasNone", inv |-> inv]

first(inv) == IF Len(inv) = 0 THEN NoItem ELSE inv[1].item

\* mutant: past the last entry the item itself is returned, no wrap
next_does_not_wrap(inv, item, debug) ==
    IF debug /\ ~contains_key(inv, item)
    THEN [ok |-> FALSE, item |-> NoItem]
    ELSE LET after == IF contains_key(inv, item) /\ index_of(inv, item) < Len(inv)
                      THEN inv[index_of(inv, item) + 1].item
                      ELSE item
         IN  [ok |-> after # NoItem, item |-> after]

\* debug: whether the build has debug assertions
next(inv, item, debug) ==
    IF debug /\ ~contains_key(inv, item)
    THEN [ok |-> FALSE, item |-> NoItem]
    ELSE LET after == IF contains_key(inv, item) /\ index_of(inv, item) < Len(inv)
                      THEN inv[index_of(inv, item) + 1].item
                      ELSE first(inv)
         IN  [ok |-> after # NoItem, item |-> after]

prev(inv, item, debug) ==
    IF debug /\ ~contains_key(inv, item)
    THEN [ok |-> FALSE, item |-> NoItem]
    ELSE IF ~contains_key(inv, item)
         THEN [ok |-> FALSE, item |-> NoItem]
         ELSE LET k == index_of(inv, item)
              IN  [ok |-> TRUE,
                   item |-> IF k > 1 THEN inv[k - 1].item ELSE inv[Len(inv)].item]

(***************************************************************************)
(* lib.rs: State                                                           *)
(***************************************************************************)
\* tiles is the HashMap<Pos, Tile>: a function whose domain is its key set
state_new ==
    [tiles |-> << >>,
     player_pos |-> <<0, 0>>,
     player_dir |-> "Down",
     message |-> "",
     inventory |-> inventory_new,
     menu |-> "None",
     selected_item |-> NoItem]

\* Perlin noise thresholded at 0.3: a fixed map from positions to WallFull
\* or Empty, here the characteristic function of walls
generate_tile(pos) == IF pos \in walls THEN WallFull ELSE Empty

get_tile(s, pos) ==
    IF pos \in DOMAIN s.tiles THEN s.tiles[pos] ELSE generate_tile(pos)

\* mutant: the entry is written even when the tile is the generated one
set_tile_always_inserts(s, pos, tile) ==
    [s EXCEPT !.tiles =
         [q \in (DOMAIN s.tiles) \cup {pos} |-> IF q = pos THEN tile ELSE s.tiles[q]]]

\* mutant: the entry is dropped when the tile is Empty, whatever is generated
set_tile_drops_empty(s, pos, tile) ==
    IF tile = Empty
    THEN [s EXCEPT !.tiles = [q \in (DOMAIN s.tiles) \ {pos} |-> s.tiles[q]]]
    ELSE [s EXCEPT !.tiles =
              [q \in (DOMAIN s.tiles) \cup {pos} |-> IF q = pos THEN tile ELSE s.tiles[q]]]

set_tile(s, pos, tile) ==
    IF tile = generate_tile(pos)
    THEN [s EXCEPT !.tiles = [q \in (DOMAIN s.tiles) \ {pos} |-> s.tiles[q]]]
    ELSE [s EXCEPT !.tiles =
              [q \in (DOMAIN s.tiles) \cup {pos} |-> IF q = pos THEN tile ELSE s.tiles[q]]]

\* the outcome of a handler: the new State, or a panic
Done(s) == [panic |-> FALSE, state |-> s]
Panic(s) == [panic |-> TRUE, state |-> s]

\* mutant: shift lets a press dig in a direction the player does not face
on_dir_input_no_menu_shift_digs(s, dir, shift, slot) ==
    LET dir_same == s.player_dir = dir
        s1 == IF shift = "No" THEN [s EXCEPT !.player_dir = dir] ELSE s
        new_pos == add(s1.player_pos, dir)
        try_move == IF shift = "Yes" THEN TRUE ELSE dir_same
        can_dig == dir_same \/ shift = "Yes"
        tile == get_tile(s1, new_pos)
        broken == breaks_into(tile)
    IN  IF tile = Empty
        THEN IF try_move THEN [s1 EXCEPT !.player_pos = new_pos] ELSE s1
        ELSE IF can_dig
             THEN CASE broken.kind = "Tile" -> set_tile(s1, new_pos, broken.tile)
                    [] broken.kind = "Item" ->
                         set_tile([s1 EXCEPT !.inventory = insert(@, broken.item, slot)],
                                  new_pos, Empty)
                    [] broken.kind = "CannotBeBroken" -> s1
             ELSE s1

\* mutant: a press turns the player whatever the shift
on_dir_input_no_menu_always_turns(s, dir, shift, slot) ==
    LET dir_same == s.player_dir = dir
        s1 == [s EXCEPT !.player_dir = dir]
        new_pos == add(s1.player_pos, dir)
        try_move == IF shift = "Yes" THEN TRUE ELSE dir_same
        can_dig == dir_same
        tile == get_tile(s1, new_pos)
        broken == breaks_into(tile)
    IN  IF tile = Empty
        THEN IF try_move THEN [s1 EXCEPT !.player_pos = new_pos] ELSE s1
        ELSE IF can_dig
             THEN CASE broken.kind = "Tile" -> set_tile(s1, new_pos, broken.tile)
                    [] broken.kind = "Item" ->
                         set_tile([s1 EXCEPT !.inventory = insert(@, broken.item, slot)],
                                  new_pos, Empty)
                    [] broken.kind = "CannotBeBroken" -> s1
             ELSE s1

\* mutant: a press moves at once, also when it turns the player
on_dir_input_no_menu_always_moves(s, dir, shift, slot) ==
    LET dir_same == s.player_dir = dir
        s1 == IF shift = "No" THEN [s EXCEPT !.player_dir = dir] ELSE s
        new_pos == add(s1.player_pos, dir)
        can_dig == dir_same
        tile == get_tile(s1, new_pos)
        broken == breaks_into(tile)
    IN  IF tile = Empty
        THEN [s1 EXCEPT !.player_pos = new_pos]
        ELSE IF can_dig
             THEN CASE broken.kind = "Tile" -> set_tile(s1, new_pos, broken.tile)
                    [] broken.kind = "Item" ->
                         set_tile([s1 EXCEPT !.inventory = insert(@, broken.item, slot)],
                                  new_pos, Empty)
                    [] broken.kind = "CannotBeBroken" -> s1
             ELSE s1

on_dir_input_no_menu(s, dir, shift, slot) ==
    LET dir_same == s.player_dir = dir
        s1 == IF shift = "No" THEN [s EXCEPT !.player_dir = dir] ELSE s
        new_pos == add(s1.player_pos, dir)
        try_move == IF shift = "Yes" THEN TRUE ELSE dir_same
        can_dig == dir_same
        tile == get_tile(s1, new_pos)
        broken == breaks_into(tile)
    IN  IF tile = Empty
        THEN IF try_move THEN [s1 EXCEPT !.player_pos = new_pos] ELSE s1
        ELSE IF can_dig
             THEN CASE broken.kind = "Tile" -> set_tile(s1, new_pos, broken.tile)
                    [] broken.kind = "Item" ->
                         set_tile([s1 EXCEPT !.inventory = insert(@, broken.item, slot)],
                                  new_pos, Empty)
                    [] broken.kind = "CannotBeBroken" -> s1
             ELSE s1

on_dir_input_inventory(s, dir, shift, debug) ==
    LET is_advancing == dir = "Right" \/ dir = "Down"
        moved == IF is_advancing
                 THEN next(s.inventory, s.selected_item, debug)
                 ELSE prev(s.inventory, s.selected_item, debug)
    IN  IF s.selected_item # NoItem
        THEN IF moved.ok
             THEN Done([s EXCEPT !.selected_item = moved.item])
             ELSE Panic(s)
        ELSE Done([s EXCEPT !.selected_item = first(s.inventory)])

on_dir_input(s, dir, shift, slot, debug) ==
    CASE s.menu = "None" -> Done(on_dir_input_no_menu(s, dir, shift, slot))
      [] s.menu = "Inventory" -> on_dir_input_inventory(s, dir, shift, debug)

MsgExisting == "You cannot build on existing tiles."
MsgNoItem == "You have no item selected to build."
MsgCannotBuild(name) == "You cannot build a " \o name \o "."
MsgFacing(name) == "You are facing a " \o name

\* mutant: the tile is built on the player's own cell
on_build_underfoot(s) ==
    LET build_pos == s.player_pos
        tile == to_tile(s.selected_item)
        removed == remove(s.inventory, s.selected_item)
    IN  IF get_tile(s, build_pos) # Empty
        THEN Done([s EXCEPT !.message = MsgExisting])
        ELSE IF s.selected_item = NoItem
             THEN Done([s EXCEPT !.message = MsgNoItem])
             ELSE IF ~tile.some
                  THEN Done([s EXCEPT !.message = MsgCannotBuild(item_name(s.selected_item))])
                  ELSE IF removed.res # "Ok"
                       THEN Panic(s)
                       ELSE Done(set_tile([s EXCEPT !.inventory = removed.inv],
                                          build_pos, tile.tile))

\* mutant: the selection is looked at before the target tile
on_build_checks_item_first(s) ==
    LET build_pos == add(s.player_pos, s.player_dir)
        tile == to_tile(s.selected_item)
        removed == remove(s.inventory, s.selected_item)
    IN  IF s.selected_item = NoItem
        THEN Done([s EXCEPT !.message = MsgNoItem])
        ELSE IF get_tile(s, build_pos) # Empty
             THEN Done([s EXCEPT !.message = MsgExisting])
             ELSE IF ~tile.some
                  THEN Done([s EXCEPT !.message = MsgCannotBuild(item_name(s.selected_item))])
                  ELSE IF removed.res # "Ok"
                       THEN Panic(s)
                       ELSE Done(set_tile([s EXCEPT !.inventory = removed.inv],
                                          build_pos, tile.tile))

\* mutant: the built item stays in the inventory
on_build_keeps_item(s) ==
    LET build_pos == add(s.player_pos, s.player_dir)
        tile == to_tile(s.selected_item)
    IN  IF get_tile(s, build_pos) # Empty
        THEN Done([s EXCEPT !.message = MsgExisting])
        ELSE IF s.selected_item = NoItem
             THEN Done([s EXCEPT !.message = MsgNoItem])
             ELSE IF ~tile.some
                  THEN Done([s EXCEPT !.message = MsgCannotBuild(item_name(s.selected_item))])
                  ELSE Done(set_tile(s, build_pos, tile.tile))

on_build(s) ==
    LET build_pos == add(s.player_pos, s.player_dir)
        tile == to_tile(s.selected_item)
        removed == remove(s.inventory, s.selected_item)
    IN  IF get_tile(s, build_pos) # Empty
        THEN Done([s EXCEPT !.message = MsgExisting])
        ELSE IF s.selected_item = NoItem
             THEN Done([s EXCEPT !.message = MsgNoItem])
             ELSE IF ~tile.some
                  THEN Done([s EXCEPT !.message = MsgCannotBuild(item_name(s.selected_item))])
                  ELSE IF removed.res # "Ok"
                       THEN Panic(s)
                       ELSE Done(set_tile([s EXCEPT !.inventory = removed.inv],
                                          build_pos, tile.tile))

tick(s) ==
    LET tile_in_front == get_tile(s, add(s.player_pos, s.player_dir))
    IN  IF s.message = "" /\ tile_in_front # Empty
        THEN [s EXCEPT !.message = MsgFacing(tile_name(tile_in_front))]
        ELSE s

\* mutant: the message of the turn before is not cleared
on_input_keeps_message(s, input, slot, debug) ==
    LET s0 == s
        out == CASE input[1] = "Dir" -> on_dir_input(s0, input[2], input[3], slot, debug)
                 [] input[1] = "Build" -> on_build(s0)
                 [] input[1] = "OpenInventory" -> Done([s0 EXCEPT !.menu = "Inventory"])
                 [] input[1] = "CloseMenu" -> Done([s0 EXCEPT !.menu = "None"])
                 [] input[1] = "Quit" -> Done(s0)
    IN  IF input[1] = "Quit"
        THEN [kind |-> "None", state |-> s0]
        ELSE IF out.panic
             THEN [kind |-> "Panic", state |-> out.state]
             ELSE [kind |-> "Some", state |-> tick(out.state)]

\* mutant: Build is ignored while a menu is open
on_input_build_needs_no_menu(s, input, slot, debug) ==
    LET s0 == [s EXCEPT !.message = ""]
        out == CASE input[1] = "Dir" -> on_dir_input(s0, input[2], input[3], slot, debug)
                 [] input[1] = "Build" ->
                      IF s0.menu = "None" THEN on_build(s0) ELSE Done(s0)
                 [] input[1] = "OpenInventory" -> Done([s0 EXCEPT !.menu = "Inventory"])
                 [] input[1] = "CloseMenu" -> Done([s0 EXCEPT !.menu = "None"])
                 [] input[1] = "Quit" -> Done(s0)
    IN  IF input[1] = "Quit"
        THEN [kind |-> "None", state |-> s0]
        ELSE IF out.panic
             THEN [kind |-> "Panic", state |-> out.state]
             ELSE [kind |-> "Some", state |-> tick(out.state)]

\* mutant: Quit is answered like a turn that changes nothing
on_input_quit_goes_on(s, input, slot, debug) ==
    LET s0 == [s EXCEPT !.message = ""]
        out == CASE input[1] = "Dir" -> on_dir_input(s0, input[2], input[3], slot, debug)
                 [] input[1] = "Build" -> on_build(s0)
                 [] input[1] = "OpenInventory" -> Done([s0 EXCEPT !.menu = "Inventory"])
                 [] input[1] = "CloseMenu" -> Done([s0 EXCEPT !.menu = "None"])
                 [] input[1] = "Quit" -> Done(s0)
    IN  IF out.panic
        THEN [kind |-> "Panic", state |-> out.state]
        ELSE [kind |-> "Some", state |-> tick(out.state)]

\* Option<State>: kind is "Some", "None", or "Panic" when the call unwinds
on_input(s, input, slot, debug) ==
    LET s0 == [s EXCEPT !.message = ""]
        out == CASE input[1] = "Dir" -> on_dir_input(s0, input[2], input[3], slot, debug)
                 [] input[1] = "Build" -> on_build(s0)
                 [] input[1] = "OpenInventory" -> Done([s0 EXCEPT !.menu = "Inventory"])
                 [] input[1] = "CloseMenu" -> Done([s0 EXCEPT !.menu = "None"])
                 [] input[1] = "Quit" -> Done(s0)
    IN  IF input[1] = "Quit"
        THEN [kind |-> "None", state |-> s0]
        ELSE IF out.panic
             THEN [kind |-> "Panic", state |-> out.state]
             ELSE [kind |-> "Some", state |-> tick(out.state)]

(***************************************************************************)
(* The turn engine: State::new(), then one on_input call per step.         *)
(***************************************************************************)
\* an entry of the log: a platform call and whether it returned Ok
Call(name, ok) == [call |-> name, ok |-> ok]

\* the entry of an ask_for_input that returned Ok(answer); NoInput is Ok(None)
Answer(input) == [call |-> "ask_for_input", ok |-> TRUE, input |-> input]

\* Result<(), P::Error>: an error is named after the platform call that failed
ResOk == [ok |-> TRUE, by |-> "none"]
ResErr(call) == [ok |-> FALSE, by |-> call]
NotYet == [ok |-> FALSE, by |-> "unset"]

\* the save file: absent, or the persisted fields of a State.  tiles is
\* written as a list of (pos, tile) pairs, the inventory as a table from item
\* to count; menu is skipped; message, inventory and selected_item are
\* written and default only when the file lacks them
NoSave == [saved |-> FALSE]

Present(inv) == {inv[k].item : k \in 1..Len(inv)}

serialize(s) ==
    [saved |-> TRUE,
     tiles |-> {<<pos, s.tiles[pos]>> : pos \in DOMAIN s.tiles},
     player_pos |-> s.player_pos,
     player_dir |-> s.player_dir,
     message |-> s.message,
     inventory |-> [i \in Present(s.inventory) |-> count_of(s.inventory, i)],
     selected_item |-> s.selected_item]

\* the iteration orders the HashMap rebuilt from a table can have
Orders(table) ==
    {order \in [1..Cardinality(DOMAIN table) -> DOMAIN table] :
        \A k, l \in DOMAIN order : order[k] = order[l] => k = l}

\* mutant: the message is not read back
deserialize_skips_message(file, order) ==
    [tiles |-> [pos \in {e[1] : e \in file.tiles} |->
                   (CHOOSE e \in file.tiles : e[1] = pos)[2]],
     player_pos |-> file.player_pos,
     player_dir |-> file.player_dir,
     message |-> "",
     inventory |-> [k \in DOMAIN order |-> Entry(order[k], file.inventory[order[k]])],
     menu |-> "None",
     selected_item |-> file.selected_item]

deserialize(file, order) ==
    [tiles |-> [pos \in {e[1] : e \in file.tiles} |->
                   (CHOOSE e \in file.tiles : e[1] = pos)[2]],
     player_pos |-> file.player_pos,
     player_dir |-> file.player_dir,
     message |-> file.message,
     inventory |-> [k \in DOMAIN order |-> Entry(order[k], file.inventory[order[k]])],
     menu |-> "None",
     selected_item |-> file.selected_item]

\* the generator is a fixed map; the model tries every choice of walls
\* among the candidate cells (the origin itself generates Empty)
Terrains == SUBSET WallCandidates

Init ==
    /\ walls \in Terrains
    /\ state = state_new
    /\ status = "running"
    /\ last_input = NoInput
    /\ pre = state_new
    /\ pc = "off"
    /\ log = << >>
    /\ disk = NoSave
    /\ loop_res = NotYet
    /\ ret = NotYet

WithinBounds(s) ==
    /\ s.player_pos \in PlayerCells
    /\ Cardinality(DOMAIN s.tiles) <= MaxStore

\* one call state.on_input(input); the caller keeps the returned State
Turn(input) ==
    /\ pc = "off"
    /\ status = "running"
    /\ \E slot \in HashSlots(state.inventory), debug \in BOOLEAN :
          LET r == on_input(state, input, slot, debug)
          IN  /\ r.kind = "Some" => WithinBounds(r.state)
              /\ state' = IF r.kind = "Some" THEN r.state ELSE state
              /\ status' = CASE r.kind = "Some" -> "running"
                              [] r.kind = "None" -> "quit"
                              [] r.kind = "Panic" -> "panic"
    /\ pre' = state
    /\ last_input' = input
    /\ UNCHANGED <<walls, pc, log, disk, loop_res, ret>>

TurnDir == \E d \in Dirs, sh \in Shifts : Turn(DirInput(d, sh))
TurnBuild == Turn(Build)
TurnOpenInventory == Turn(OpenInventory)
TurnCloseMenu == Turn(CloseMenu)
TurnQuit == Turn(Quit)

Next ==
    \/ TurnDir
    \/ TurnBuild
    \/ TurnOpenInventory
    \/ TurnCloseMenu
    \/ TurnQuit

Spec == Init /\ [][Next]_vars

(***************************************************************************)
(* game_loop.rs: start_game against a Platform whose every call may fail.  *)
(***************************************************************************)
\* the save files a run can start from: none, or one a previous run left
RECURSIVE Play(_, _)
Play(s, inputs) ==
    IF inputs = << >>
    THEN s
    ELSE Play(on_input(s, Head(inputs), 0, TRUE).state, Tail(inputs))

\* a game that tried to dig below the origin and then selected an item
EarlierGame ==
    <<DirInput("Down", "No"), DirInput("Down", "No"), DirInput("Down", "No"),
      OpenInventory, DirInput("Down", "No")>>

\* the same game saved one Build later
BuiltGame == EarlierGame \o <<Build>>

SavedFiles ==
    {NoSave,
     serialize(state_new),
     serialize(Play(state_new, <<DirInput("Left", "No")>>)),
     serialize(Play(state_new, EarlierGame)),
     serialize(Play(state_new, BuiltGame))}

LoopInit ==
    /\ walls \in Terrains
    /\ state = state_new
    /\ status = "running"
    /\ last_input = NoInput
    /\ pre = state_new
    /\ pc = "init"
    /\ log = << >>
    /\ disk \in SavedFiles
    /\ loop_res = NotYet
    /\ ret = NotYet

\* mutant: the failed call is tried again
Fail_retries(call) ==
    /\ log' = Append(log, Call(call, FALSE))
    /\ loop_res' = loop_res
    /\ pc' = pc

\* mutant: the error leaves start_game at once
Fail_skips_cleanup(call) ==
    /\ log' = Append(log, Call(call, FALSE))
    /\ loop_res' = ResErr(call)
    /\ pc' = "returned"

\* a platform call fails: the ? operator makes start_game_actual return Err
Fail(call) ==
    /\ log' = Append(log, Call(call, FALSE))
    /\ loop_res' = ResErr(call)
    /\ pc' = "cleanup"

\* mutant: the cleanup error wins over the loop's
start_game_result_prefers_cleanup(res, cleanup_res) ==
    CASE res.ok /\ cleanup_res.ok -> ResOk
      [] ~res.ok /\ ~cleanup_res.ok -> cleanup_res
      [] ~res.ok -> res
      [] OTHER -> cleanup_res

\* the match of start_game on (res, cleanup_res)
start_game_result(res, cleanup_res) ==
    CASE res.ok /\ cleanup_res.ok -> ResOk
      [] ~res.ok /\ ~cleanup_res.ok -> res
      [] ~res.ok -> res
      [] OTHER -> cleanup_res

CallInit ==
    /\ pc = "init"
    /\ \/ pc' = "load" /\ log' = Append(log, Call("init", TRUE)) /\ UNCHANGED loop_res
       \/ Fail("init")
    /\ UNCHANGED <<walls, state, status, last_input, pre, disk, ret>>

CallLoad ==
    /\ pc = "load"
    /\ \/ /\ pc' = "draw"
          /\ log' = Append(log, Call("load", TRUE))
          /\ \E order \in (IF disk.saved THEN Orders(disk.inventory) ELSE {<< >>}) :
                state' = IF disk.saved THEN deserialize(disk, order) ELSE state_new
          /\ UNCHANGED loop_res
       \/ Fail("load") /\ UNCHANGED state
    /\ UNCHANGED <<walls, status, last_input, pre, disk, ret>>

CallDraw ==
    /\ pc = "draw"
    /\ Len(log) < MaxCalls
    /\ \/ pc' = "ask" /\ log' = Append(log, Call("draw", TRUE)) /\ UNCHANGED loop_res
       \/ Fail("draw")
    /\ UNCHANGED <<walls, state, status, last_input, pre, disk, ret>>

\* mutant: Ok(None) ends the wait like an input that changed nothing
AskNone_advances ==
    /\ pc = "ask"
    /\ Len(log) < MaxCalls
    /\ log' = Append(log, Answer(NoInput))
    /\ pc' = "save"
    /\ UNCHANGED <<walls, state, status, last_input, pre, disk, loop_res, ret>>

\* get_good_input: ask_for_input answered Ok(None), the loop asks again
AskNone ==
    /\ pc = "ask"
    /\ Len(log) < MaxCalls
    /\ log' = Append(log, Answer(NoInput))
    /\ UNCHANGED <<walls, state, status, last_input, pre, pc, disk, loop_res, ret>>

AskErr ==
    /\ pc = "ask"
    /\ Len(log) < MaxCalls
    /\ Fail("ask_for_input")
    /\ UNCHANGED <<walls, state, status, last_input, pre, disk, ret>>

\* ask_for_input answered Ok(Some(input)) and the turn is resolved
AskSome ==
    /\ pc = "ask"
    /\ Len(log) < MaxCalls
    /\ \E input \in Inputs, slot \in HashSlots(state.inventory), debug \in BOOLEAN :
          LET r == on_input(state, input, slot, debug)
          IN  /\ log' = Append(log, Answer(input))
              /\ state' = IF r.kind = "Some" THEN r.state ELSE state
              /\ status' = CASE r.kind = "Some" -> "running"
                              [] r.kind = "None" -> "quit"
                              [] r.kind = "Panic" -> "panic"
              /\ pc' = CASE r.kind = "Some" -> "save"
                          [] r.kind = "None" -> "cleanup"
                          [] r.kind = "Panic" -> "unwound"
              /\ loop_res' = IF r.kind = "None" THEN ResOk ELSE loop_res
              /\ pre' = state
              /\ last_input' = input
    /\ UNCHANGED <<walls, disk, ret>>

CallSave ==
    /\ pc = "save"
    /\ Len(log) < MaxCalls
    /\ \/ /\ pc' = "draw"
          /\ log' = Append(log, Call("save", TRUE))
          /\ disk' = serialize(state)
          /\ UNCHANGED loop_res
       \/ Fail("save") /\ UNCHANGED disk
    /\ UNCHANGED <<walls, state, status, last_input, pre, ret>>

CallCleanup ==
    /\ pc = "cleanup"
    /\ \E cleanup_res \in {ResOk, ResErr("cleanup")} :
          /\ log' = Append(log, Call("cleanup", cleanup_res.ok))
          /\ ret' = start_game_result(loop_res, cleanup_res)
    /\ pc' = "returned"
    /\ UNCHANGED <<walls, state, status, last_input, pre, disk, loop_res>>

LoopNext ==
    \/ CallInit
    \/ CallLoad
    \/ CallDraw
    \/ AskNone
    \/ AskErr
    \/ AskSome
    \/ CallSave
    \/ CallCleanup

LoopSpec == LoopInit /\ [][LoopNext]_vars

(***************************************************************************)
(* Properties of the tile store.                                           *)
(***************************************************************************)
Running == status = "running"
Front(s) == add(s.player_pos, s.player_dir)
Stored(s) == DOMAIN s.tiles

\* C1: from State::new(), after any sequence of inputs, every entry
\* (pos, tile) of the tile store has tile # generate_tile(pos).
C1_StoreHoldsOnlyDeltas ==
    \A pos \in Stored(state) : state.tiles[pos] # generate_tile(pos)

\* a Build has just put back the generated tile: the entry is gone
C1_Witness ==
    /\ Running
    /\ last_input = Build
    /\ Front(pre) \in Stored(pre)
    /\ Front(pre) \notin Stored(state)
    /\ get_tile(state, Front(pre)) = WallFull

\* the cells a State tells apart: those with an entry, those where a wall is
\* generated, the player's own and the one in front of it
Probes(s) == Stored(s) \cup WallCandidates \cup {s.player_pos, Front(s)}

\* C2: after set_tile(pos, t), get_tile(pos) = t; if t = generate_tile(pos)
\* the store has no entry for pos and has not grown; get_tile(q) is unchanged
\* for every q # pos.
C2_SetThenGet ==
    \A pos \in Probes(state), t \in Tiles :
        LET s2 == set_tile(state, pos, t)
        IN  /\ get_tile(s2, pos) = t
            /\ t = generate_tile(pos) =>
                  /\ pos \notin Stored(s2)
                  /\ Cardinality(Stored(s2)) <= Cardinality(Stored(state))
            /\ \A q \in Probes(state) \ {pos} : get_tile(s2, q) = get_tile(state, q)

\* the last dig of a built wall wrote Empty where Empty is generated, while
\* another cell keeps its entry
C2_Witness ==
    /\ Running
    /\ last_input[1] = "Dir"
    /\ \E pos \in Stored(pre) :
          /\ pre.tiles[pos] = WallLow
          /\ generate_tile(pos) = Empty
          /\ pos \notin Stored(state)
          /\ Stored(state) = Stored(pre) \ {pos}
          /\ Stored(state) # {}

(***************************************************************************)
(* Properties of turn resolution.                                          *)
(***************************************************************************)
Walls(s) == count_of(s.inventory, "Wall")

\* the fields of a State other than the message
SameButMessage(a, b) == [a EXCEPT !.message = ""] = [b EXCEPT !.message = ""]

\* the State facing dir, with no menu open, sees tile in front of the player
Facing(s, dir, tile) ==
    /\ s.menu = "None"
    /\ s.player_dir = dir
    /\ get_tile(s, add(s.player_pos, dir)) = tile

\* three Dir(d, No) inputs on a WallFull in front: WallHalf, WallLow, then
\* Empty and one more Wall item
DigsThrough(s, d, slot, debug, r1, r2, r3) ==
    LET target == add(s.player_pos, d)
    IN  /\ r1.kind = "Some" /\ r2.kind = "Some" /\ r3.kind = "Some"
        /\ get_tile(r1.state, target) = WallHalf
        /\ Walls(r1.state) = Walls(s)
        /\ get_tile(r2.state, target) = WallLow
        /\ Walls(r2.state) = Walls(s)
        /\ get_tile(r3.state, target) = Empty
        /\ Walls(r3.state) = Walls(s) + 1

\* C3 as claimed: facing a WallFull with no menu, three inputs Dir(d, No)
\* make the target WallHalf, WallLow, then Empty with one more Wall; a fourth
\* Dir(d, No) is a no-op.
C3_FourthDigIsNoOp ==
    \A d \in Dirs, slot \in HashSlots(state.inventory), debug \in BOOLEAN :
        Running /\ Facing(state, d, WallFull) =>
            LET r1 == on_input(state, DirInput(d, "No"), slot, debug)
                r2 == on_input(r1.state, DirInput(d, "No"), slot, debug)
                r3 == on_input(r2.state, DirInput(d, "No"), slot, debug)
                r4 == on_input(r3.state, DirInput(d, "No"), slot, debug)
            IN  /\ DigsThrough(state, d, slot, debug, r1, r2, r3)
                /\ r4.kind = "Some"
                /\ SameButMessage(r4.state, r3.state)

\* C3 amended: ... the fourth Dir(d, No) digs nothing (tile store and
\* inventory unchanged) and moves the player onto the now-Empty target.
C3_DigProgression ==
    \A d \in Dirs, slot \in HashSlots(state.inventory), debug \in BOOLEAN :
        Running /\ Facing(state, d, WallFull) =>
            LET r1 == on_input(state, DirInput(d, "No"), slot, debug)
                r2 == on_input(r1.state, DirInput(d, "No"), slot, debug)
                r3 == on_input(r2.state, DirInput(d, "No"), slot, debug)
                r4 == on_input(r3.state, DirInput(d, "No"), slot, debug)
            IN  /\ DigsThrough(state, d, slot, debug, r1, r2, r3)
                /\ r4.kind = "Some"
                /\ r4.state.tiles = r3.state.tiles
                /\ r4.state.inventory = r3.state.inventory
                /\ r4.state.player_dir = d
                /\ r4.state.player_pos = add(state.player_pos, d)

\* the fourth input has acted: the player stepped into the cell it dug out
C3_Witness ==
    /\ Running
    /\ \E d \in Dirs :
          /\ last_input = DirInput(d, "No")
          /\ Facing(pre, d, Empty)
          /\ generate_tile(add(pre.player_pos, d)) = WallFull
          /\ Walls(pre) = 1
          /\ state.player_pos = add(pre.player_pos, d)
          /\ state.tiles = pre.tiles

\* the State has Wall selected, one Wall, and an Empty tile ahead
CanBuildLastWall(s) ==
    /\ s.selected_item = "Wall"
    /\ Walls(s) = 1
    /\ get_tile(s, Front(s)) = Empty

\* Build uses up the Wall and sets the target tile to WallFull
BuildsWall(s, r1) ==
    /\ r1.kind = "Some"
    /\ Walls(r1.state) = 0
    /\ get_tile(r1.state, Front(s)) = WallFull

\* C4 as claimed: with Wall selected, count 1 and an Empty tile ahead, Build
\* makes the count 0 and the target WallFull; a second Build sets the
\* 'no item selected' message (the selection is now empty) and leaves the
\* world unchanged.
C4_SecondBuildNoItem ==
    \A debug \in BOOLEAN :
        Running /\ CanBuildLastWall(state) =>
            LET r1 == on_input(state, Build, 0, debug)
                r2 == on_input(r1.state, Build, 0, debug)
            IN  /\ BuildsWall(state, r1)
                /\ r2.kind = "Some"
                /\ r2.state.message = MsgNoItem
                /\ r2.state.selected_item = NoItem
                /\ r2.state.tiles = r1.state.tiles

\* C4 amended: ... a second Build sets the 'cannot build on existing tiles'
\* message (the target is now WallFull) and leaves the world and the
\* inventory unchanged.
C4_BuildGating ==
    \A debug \in BOOLEAN :
        Running /\ CanBuildLastWall(state) =>
            LET r1 == on_input(state, Build, 0, debug)
                r2 == on_input(r1.state, Build, 0, debug)
            IN  /\ BuildsWall(state, r1)
                /\ r2.kind = "Some"
                /\ r2.state.message = MsgExisting
                /\ r2.state.tiles = r1.state.tiles
                /\ r2.state.inventory = r1.state.inventory

\* the second Build has acted, on the wall the first one built
C4_Witness ==
    /\ Running
    /\ last_input = Build
    /\ pre.selected_item = "Wall"
    /\ Walls(pre) = 0
    /\ get_tile(pre, Front(pre)) = WallFull
    /\ pre.message = MsgFacing("wall")
    /\ state.message = MsgExisting

\* C5: in every reachable state a selected item has count_of > 0, so the
\* remove of a successful Build never returns HasNone (the expect in
\* on_build never fires).
C5_SelectedItemIsHeld ==
    /\ state.selected_item # NoItem => count_of(state.inventory, state.selected_item) > 0
    /\ last_input = Build => status # "panic"

\* C6: every input other than Quit completes and returns a next state: no
\* assertion, expect or panic fires in on_build, next, prev or remove.
C6_TurnsNeverPanic ==
    status # "panic"

\* C7: with no menu and player_dir # d, Dir(d, No) only reorients
\* (player_dir = d; position, world, inventory unchanged); a following
\* Dir(d, No) moves the player to player_pos + d iff the tile there is Empty.
C7_TurnThenMove ==
    \A d \in Dirs \ {state.player_dir},
       slot \in HashSlots(state.inventory), debug \in BOOLEAN :
        Running /\ state.menu = "None" =>
            LET r1 == on_input(state, DirInput(d, "No"), slot, debug)
                r2 == on_input(r1.state, DirInput(d, "No"), slot, debug)
                target == add(state.player_pos, d)
            IN  /\ r1.kind = "Some"
                /\ r1.state.player_dir = d
                /\ r1.state.player_pos = state.player_pos
                /\ r1.state.tiles = state.tiles
                /\ r1.state.inventory = state.inventory
                /\ r2.kind = "Some"
                /\ r2.state.player_pos = target <=> get_tile(r1.state, target) = Empty
                /\ r2.state.player_pos \in {target, state.player_pos}

\* the second press has acted after a turn: the player faced Down at the
\* start and has now stepped Left
C7_Witness ==
    /\ Running
    /\ last_input = DirInput("Left", "No")
    /\ pre.player_pos = <<0, 0>>
    /\ pre.player_dir = "Left"
    /\ pre.tiles = << >>
    /\ state.player_pos = <<-1, 0>>

(***************************************************************************)
(* Properties of the game loop (under LoopSpec).                           *)
(***************************************************************************)
Returned == pc = "returned"
Calls(name) == {k \in 1..Len(log) : log[k].call = name}
Failures == {k \in 1..Len(log) : ~log[k].ok}
LastCall == log[Len(log)]

\* C8: on_input(state, Quit) is None for every state (any menu, selection,
\* inventory, world), and in the loop the Quit turn is followed by no draw,
\* ask_for_input or save: only cleanup.
C8_QuitIsTerminal ==
    /\ \A m \in Menus, sel \in Items \cup {NoItem}, debug \in BOOLEAN :
          on_input([state EXCEPT !.menu = m, !.selected_item = sel],
                   Quit, 0, debug).kind = "None"
    /\ last_input = Quit =>
          \/ pc = "cleanup" /\ LastCall = Answer(Quit)
          \/ /\ Returned
             /\ LastCall.call = "cleanup"
             /\ log[Len(log) - 1] = Answer(Quit)

\* a Quit read after a resolved turn has ended the run
C8_Witness ==
    /\ Returned
    /\ last_input = Quit
    /\ Calls("save") # {}
    /\ loop_res = ResOk

\* C9: cleanup is called exactly once in a run of start_game and is its last
\* platform call, whether the loop ended by Quit or by an error of init,
\* load, draw, ask_for_input or save.
C9_CleanupOnceAndLast ==
    /\ Cardinality(Calls("cleanup")) <= 1
    /\ Calls("cleanup") # {} => Returned /\ LastCall.call = "cleanup"
    /\ Returned => Calls("cleanup") = {Len(log)}
    /\ loop_res # NotYet => pc \in {"cleanup", "returned"}

\* a failed save has ended the loop and cleanup was the next and last call
C9_Witness ==
    /\ Returned
    /\ loop_res = ResErr("save")
    /\ log[Len(log) - 1] = Call("save", FALSE)
    /\ LastCall.call = "cleanup"

\* C10: start_game returns Ok only when the loop and cleanup both succeeded;
\* when both fail it returns the loop's error; when one fails, that one's.
C10_ReturnValue ==
    Returned =>
        LET loop_failures == Failures \ Calls("cleanup")
            loop_ok == loop_failures = {}
            cleanup_ok == LastCall.ok
            loop_err == ResErr(log[CHOOSE k \in loop_failures : TRUE].call)
        IN  /\ ret.ok <=> (loop_ok /\ cleanup_ok)
            /\ ret.ok => ret = ResOk
            /\ ~loop_ok => ret = loop_err
            /\ loop_ok /\ ~cleanup_ok => ret = ResErr("cleanup")

\* the loop failed on draw, cleanup failed too, and the draw error came back
C10_Witness ==
    /\ Returned
    /\ Failures = {Len(log) - 1, Len(log)}
    /\ log[Len(log) - 1].call = "draw"
    /\ ret = ResErr("draw")

(***************************************************************************)
(* The inventory on its own: Inventory::new(), then any sequence of        *)
(* insert, remove, first, next and prev calls.  state.inventory is the     *)
(* Inventory, state.selected_item the item the last first/next/prev gave.  *)
(***************************************************************************)
InvInit ==
    /\ walls = {}
    /\ state = state_new
    /\ status = "running"
    /\ last_input = NoInput
    /\ pre = state_new
    /\ pc = "inventory"
    /\ log = << >>
    /\ disk = NoSave
    /\ loop_res = NotYet
    /\ ret = NotYet

InvFrame == UNCHANGED <<walls, pc, log, disk, loop_res, ret>>

InvInsert ==
    /\ pc = "inventory" /\ Running
    /\ \E item \in Items, slot \in HashSlots(state.inventory) :
          /\ count_of(state.inventory, item) < MaxCount
          /\ state' = [state EXCEPT !.inventory = insert(@, item, slot)]
          /\ last_input' = <<"insert", item>>
    /\ pre' = state
    /\ UNCHANGED status
    /\ InvFrame

InvRemove ==
    /\ pc = "inventory" /\ Running
    /\ \E item \in Items :
          LET r == remove(state.inventory, item)
          IN  /\ state' = [state EXCEPT !.inventory = r.inv]
              /\ status' = IF r.res = "Panic" THEN "panic" ELSE status
              /\ last_input' = <<"remove", item, r.res>>
    /\ pre' = state
    /\ InvFrame

InvFirst ==
    /\ pc = "inventory" /\ Running
    /\ state' = [state EXCEPT !.selected_item = first(state.inventory)]
    /\ last_input' = <<"first">>
    /\ pre' = state
    /\ UNCHANGED status
    /\ InvFrame

\* next and prev are called on an item of the inventory, as their NOTE asks
InvNext ==
    /\ pc = "inventory" /\ Running
    /\ \E item \in Present(state.inventory), debug \in BOOLEAN :
          LET r == next(state.inventory, item, debug)
          IN  /\ state' = [state EXCEPT !.selected_item = r.item]
              /\ status' = IF r.ok THEN status ELSE "panic"
              /\ last_input' = <<"next", item>>
    /\ pre' = state
    /\ InvFrame

InvPrev ==
    /\ pc = "inventory" /\ Running
    /\ \E item \in Present(state.inventory), debug \in BOOLEAN :
          LET r == prev(state.inventory, item, debug)
          IN  /\ state' = [state EXCEPT !.selected_item = r.item]
              /\ status' = IF r.ok THEN status ELSE "panic"
              /\ last_input' = <<"prev", item>>
    /\ pre' = state
    /\ InvFrame

InvStep ==
    \/ InvInsert
    \/ InvRemove
    \/ InvFirst
    \/ InvNext
    \/ InvPrev

InvSpec == InvInit /\ [][InvStep]_vars

(***************************************************************************)
(* Properties of the inventory (under InvSpec).                            *)
(***************************************************************************)
\* C11: remove(i) with count_of(i) = 0 returns Err(HasNone) and changes no
\* count; with count_of(i) = n > 0 it returns Ok and makes count_of(i) = n - 1,
\* the other counts unchanged; insert(i) makes count_of(i) = n + 1.
C11_InventoryAccounting ==
    \A i \in Items, slot \in HashSlots(state.inventory) :
        LET inv == state.inventory
            n == count_of(inv, i)
            r == remove(inv, i)
            added == insert(inv, i, slot)
        IN  /\ n = 0 => r.res = "HasNone" /\ r.inv = inv
            /\ n > 0 =>
                  /\ r.res = "Ok"
                  /\ count_of(r.inv, i) = n - 1
                  /\ \A j \in Items \ {i} : count_of(r.inv, j) = count_of(inv, j)
            /\ count_of(added, i) = n + 1
            /\ \A j \in Items \ {i} : count_of(added, j) = count_of(inv, j)

\* a remove of an item whose count was 0 has been refused, other items held
C11_Witness ==
    /\ Running
    /\ last_input = <<"remove", "Wood", "HasNone">>
    /\ count_of(pre.inventory, "Wood") = 0
    /\ count_of(pre.inventory, "Wall") = MaxCount
    /\ state.inventory = pre.inventory

\* C12: after any sequence of insert and remove every entry of the map has
\* count > 0 (an entry reaching 0 is deleted by that remove), so the assert
\* in remove never fails.
C12_EntriesArePositive ==
    /\ \A k \in 1..Len(state.inventory) : state.inventory[k].count > 0
    /\ \A k, l \in 1..Len(state.inventory) :
          state.inventory[k].item = state.inventory[l].item => k = l
    /\ status # "panic"

\* a remove has taken the last unit of an item and its entry is gone
C12_Witness ==
    /\ Running
    /\ last_input = <<"remove", "Wall", "Ok">>
    /\ count_of(pre.inventory, "Wall") = 1
    /\ "Wall" \notin Present(state.inventory)
    /\ "Wood" \in Present(state.inventory)

\* C13: with iteration order [x1..xn], n >= 1: next(xk) = x(k+1) and
\* next(xn) = x1; prev(xk) = x(k-1) and prev(x1) = xn; so prev(next(x)) = x
\* = next(prev(x)), and n applications of next return to x.
RECURSIVE NextTimes(_, _, _, _)
NextTimes(inv, item, debug, n) ==
    IF n = 0 THEN item ELSE NextTimes(inv, next(inv, item, debug).item, debug, n - 1)

C13_CyclicNavigation ==
    \A debug \in BOOLEAN :
        LET inv == state.inventory
            n == Len(inv)
        IN  \A k \in 1..n :
                LET x == inv[k].item
                    nx == next(inv, x, debug)
                    pv == prev(inv, x, debug)
                IN  /\ nx.ok /\ pv.ok
                    /\ nx.item = inv[IF k = n THEN 1 ELSE k + 1].item
                    /\ pv.item = inv[IF k = 1 THEN n ELSE k - 1].item
                    /\ prev(inv, nx.item, debug).item = x
                    /\ next(inv, pv.item, debug).item = x
                    /\ NextTimes(inv, x, debug, n) = x

\* next has wrapped from the last of two entries to the first
C13_Witness ==
    /\ Running
    /\ Len(state.inventory) = 2
    /\ last_input = <<"next", state.inventory[2].item>>
    /\ state.selected_item = state.inventory[1].item

(***************************************************************************)
(* Properties of persistence (under LoopSpec).                             *)
(***************************************************************************)
\* what save then load keeps whatever the claim: position, facing, tile
\* store and every count of the inventory
KeepsWorld(s, l) ==
    /\ l.player_pos = s.player_pos
    /\ l.player_dir = s.player_dir
    /\ l.tiles = s.tiles
    /\ \A i \in Items : count_of(l.inventory, i) = count_of(s.inventory, i)

Reloads(s) ==
    {deserialize(serialize(s), order) : order \in Orders(serialize(s).inventory)}

\* C14 as claimed: save then load preserves player_pos, player_dir, the tile
\* store and the inventory, and the loaded state has menu = None,
\* selected_item = None and an empty message whatever they were.
C14_TransientsDropped ==
    \A l \in Reloads(state) :
        /\ KeepsWorld(state, l)
        /\ l.menu = "None"
        /\ l.selected_item = NoItem
        /\ l.message = ""

\* C14 amended: save then load preserves player_pos, player_dir, the tile
\* store, the inventory counts and also message and selected_item; only menu
\* is not carried over (the loaded state has menu = None).  save writes the
\* State of the turn and load returns what the file holds.
C14_SaveLoadRoundTrip ==
    /\ \A l \in Reloads(state) :
          /\ KeepsWorld(state, l)
          /\ l.menu = "None"
          /\ l.selected_item = state.selected_item
          /\ l.message = state.message
    /\ log # << >> /\ LastCall = Call("save", TRUE) => disk = serialize(state)
    /\ log # << >> /\ LastCall = Call("load", TRUE) /\ disk.saved =>
          /\ state \in {deserialize(disk, order) : order \in Orders(disk.inventory)}
          /\ state.message = disk.message
          /\ state.selected_item = disk.selected_item

\* a file saved with the inventory menu open and Wall selected was loaded:
\* the selection came back, the menu did not
C14_Witness ==
    /\ log # << >>
    /\ LastCall = Call("load", TRUE)
    /\ disk = serialize(Play(state_new, EarlierGame))
    /\ Play(state_new, EarlierGame).menu = "Inventory"
    /\ state.selected_item = "Wall"
    /\ state.menu = "None"

(***************************************************************************)
(* Properties of the loop's pacing (under LoopSpec).                       *)
(***************************************************************************)
Draws == {k \in 1..Len(log) : log[k] = Call("draw", TRUE)}
Saves == Calls("save")
\* the ask_for_input calls that returned an input: each resolves one turn
Resolved ==
    {k \in 1..Len(log) :
        log[k].call = "ask_for_input" /\ log[k].ok /\ log[k].input # NoInput}

\* C15: between two consecutive draws exactly one input is consumed and one
\* turn resolved; an ask_for_input answer of none changes nothing and is
\* followed by no save; save is called exactly once after each resolved
\* non-Quit turn, with the state that turn produced, before the next draw.
C15_OneTurnPerDraw ==
    /\ \A i, j \in Draws :
          i < j /\ Draws \cap (i + 1..j - 1) = {} =>
             /\ Resolved \cap (i..j) = {j - 2}
             /\ log[j - 2].input # Quit
             /\ Saves \cap (i..j) = {j - 1}
             /\ log[j - 1].ok
             /\ \A k \in i + 1..j - 3 : log[k] = Answer(NoInput)
    /\ \A k \in Saves : k - 1 \in Resolved /\ log[k - 1].input # Quit
    /\ \A k \in Resolved :
          /\ k - 1 \in Draws \/ (k > 1 /\ log[k - 1] = Answer(NoInput))
          /\ log[k].input # Quit /\ k < Len(log) => k + 1 \in Saves
          /\ log[k].input # Quit /\ k = Len(log) => pc \in {"save", "unwound"}
          /\ log[k].input = Quit => Saves \cap (k..Len(log)) = {}
    /\ pc = "ask" =>
          /\ LastCall \in {Call("draw", TRUE), Answer(NoInput)}
          /\ IF Resolved # {}
             THEN disk = serialize(state)
             ELSE IF disk.saved
                  THEN state \in {deserialize(disk, order) : order \in Orders(disk.inventory)}
                  ELSE state = state_new
    /\ log # << >> /\ LastCall = Call("save", TRUE) =>
          /\ log[Len(log) - 1] = Answer(last_input)
          /\ disk = serialize(state)
          /\ \E slot \in HashSlots(pre.inventory), debug \in BOOLEAN :
                LET r == on_input(pre, last_input, slot, debug)
                IN  r.kind = "Some" /\ r.state = state

\* two draws with an unanswered poll, then a turn that changed the state and
\* its save between them
C15_Witness ==
    /\ Cardinality(Draws) = 2
    /\ log # << >>
    /\ LastCall = Call("draw", TRUE)
    /\ \E k \in 1..Len(log) : log[k] = Answer(NoInput)
    /\ state # pre
    /\ disk = serialize(state)

(***************************************************************************)
(* Properties of directional input without a menu (under Spec).            *)
(***************************************************************************)
IsDir(input) == input[1] = "Dir"

\* C16: with menu = None, Dir(d, shift) with d # player_dir never digs,
\* whatever the shift: the tile at player_pos + d and the inventory are as
\* before the turn.  A Dir turn changes a tile or the inventory only when d
\* is the facing before the input and the target tile is not Empty.
C16_NoDigOnTurn ==
    /\ Running /\ state.menu = "None" =>
          \A d \in Dirs, shift \in Shifts,
             slot \in HashSlots(state.inventory), debug \in BOOLEAN :
              LET r == on_input(state, DirInput(d, shift), slot, debug)
                  target == add(state.player_pos, d)
              IN  /\ r.kind = "Some"
                  /\ d # state.player_dir =>
                        /\ get_tile(r.state, target) = get_tile(state, target)
                        /\ r.state.tiles = state.tiles
                        /\ r.state.inventory = state.inventory
                  /\ r.state.tiles # state.tiles \/ r.state.inventory # state.inventory =>
                        /\ d = state.player_dir
                        /\ get_tile(state, target) # Empty
    /\ Running /\ IsDir(last_input) /\ pre.menu = "None"
          /\ (state.tiles # pre.tiles \/ state.inventory # pre.inventory) =>
          /\ last_input[2] = pre.player_dir
          /\ get_tile(pre, Front(pre)) # Empty

\* a shift press toward a wall the player did not face: nothing was dug
C16_Witness ==
    /\ Running
    /\ IsDir(last_input) /\ last_input[3] = "Yes"
    /\ pre.menu = "None"
    /\ last_input[2] # pre.player_dir
    /\ get_tile(pre, add(pre.player_pos, last_input[2])) = WallFull
    /\ get_tile(state, add(pre.player_pos, last_input[2])) = WallFull
    /\ state.inventory = pre.inventory

\* C17: with menu = None, Dir(d, Yes) never changes player_dir and moves the
\* player to player_pos + d whenever the tile there is Empty, whatever the
\* facing; Dir(d, No) always leaves player_dir = d.  No Dir input, in any
\* menu, moves the player onto a tile that is not Empty.
C17_ShiftSemantics ==
    /\ Running /\ state.menu = "None" =>
          \A d \in Dirs, slot \in HashSlots(state.inventory), debug \in BOOLEAN :
              LET yes == on_input(state, DirInput(d, "Yes"), slot, debug)
                  no == on_input(state, DirInput(d, "No"), slot, debug)
                  target == add(state.player_pos, d)
              IN  /\ yes.kind = "Some" /\ no.kind = "Some"
                  /\ yes.state.player_dir = state.player_dir
                  /\ get_tile(state, target) = Empty => yes.state.player_pos = target
                  /\ no.state.player_dir = d
    /\ Running =>
          \A d \in Dirs, shift \in Shifts,
             slot \in HashSlots(state.inventory), debug \in BOOLEAN :
              LET r == on_input(state, DirInput(d, shift), slot, debug)
              IN  r.kind = "Some" /\ r.state.player_pos # state.player_pos =>
                     /\ r.state.player_pos = add(state.player_pos, d)
                     /\ get_tile(state, r.state.player_pos) = Empty
    /\ Running /\ IsDir(last_input) /\ state.player_pos # pre.player_pos =>
          /\ state.player_pos = add(pre.player_pos, last_input[2])
          /\ get_tile(pre, state.player_pos) = Empty

\* a shift press moved the player sideways without turning it
C17_Witness ==
    /\ Running
    /\ IsDir(last_input) /\ last_input[3] = "Yes"
    /\ pre.menu = "None"
    /\ last_input[2] # pre.player_dir
    /\ state.player_pos = add(pre.player_pos, last_input[2])
    /\ state.player_dir = pre.player_dir

(***************************************************************************)
(* Properties of the inventory menu and of Build (under Spec).             *)
(***************************************************************************)
\* C18: while menu = Inventory a Dir input changes only selected_item (and
\* message): player_pos, player_dir, the tile store and the inventory are
\* unchanged; Up/Left moves the selection to the previous item, Down/Right
\* to the next; with no selection it becomes inventory.first(), which stays
\* None when the inventory is empty.
C18_MenuDirMovesSelection ==
    IsDir(last_input) /\ pre.menu = "Inventory" =>
        /\ status = "running"
        /\ state.player_pos = pre.player_pos
        /\ state.player_dir = pre.player_dir
        /\ state.tiles = pre.tiles
        /\ state.inventory = pre.inventory
        /\ state.menu = pre.menu
        /\ IF pre.selected_item = NoItem
           THEN state.selected_item = first(pre.inventory)
           ELSE /\ state.selected_item \in Present(pre.inventory)
                /\ \A debug \in BOOLEAN :
                      state.selected_item =
                          IF last_input[2] \in {"Down", "Right"}
                          THEN next(pre.inventory, pre.selected_item, debug).item
                          ELSE prev(pre.inventory, pre.selected_item, debug).item

\* C19 as claimed: Build takes effect only when menu = None; a Build
\* received while menu = Inventory leaves the tile store and the inventory
\* unchanged.
C19_BuildOnlyWithoutMenu ==
    last_input = Build /\ pre.menu = "Inventory" =>
        state.tiles = pre.tiles /\ state.inventory = pre.inventory

\* C19 amended: Build does not look at the menu.  A Build received while
\* menu = Inventory does to the tile store, the inventory and the message
\* exactly what it does with menu = None, and leaves the menu as it was.
C19_BuildIgnoresMenu ==
    /\ Running =>
          \A slot \in HashSlots(state.inventory), debug \in BOOLEAN :
              LET closed == on_input([state EXCEPT !.menu = "None"], Build, slot, debug)
                  open == on_input([state EXCEPT !.menu = "Inventory"], Build, slot, debug)
              IN  /\ open.kind = closed.kind
                  /\ open.state = [closed.state EXCEPT !.menu = "Inventory"]
    /\ Running /\ last_input = Build => state.menu = pre.menu

\* a Build with the inventory menu open placed a tile and used up an item
C19_Witness ==
    /\ Running
    /\ last_input = Build
    /\ pre.menu = "Inventory"
    /\ get_tile(pre, Front(pre)) = Empty
    /\ get_tile(state, Front(pre)) = WallFull
    /\ Walls(state) = Walls(pre) - 1

\* C20: a Build that fails softly changes nothing but the message.  When
\* the target tile is not Empty the message is MsgExisting, also when no
\* item is selected; otherwise, when no item is selected, it is MsgNoItem.
\* In both cases player_pos, player_dir, tile store, inventory, menu and
\* selected_item are unchanged.
C20_BuildSoftFailures ==
    /\ Running =>
          \A slot \in HashSlots(state.inventory), debug \in BOOLEAN :
              LET r == on_input(state, Build, slot, debug)
                  blocked == get_tile(state, Front(state)) # Empty
              IN  /\ blocked =>
                        /\ r.kind = "Some"
                        /\ r.state.message = MsgExisting
                        /\ SameButMessage(r.state, state)
                  /\ ~blocked /\ state.selected_item = NoItem =>
                        /\ r.kind = "Some"
                        /\ r.state.message = MsgNoItem
                        /\ SameButMessage(r.state, state)
    /\ Running /\ last_input = Build /\ state.message \in {MsgExisting, MsgNoItem} =>
          SameButMessage(state, pre)

\* a Build toward a wall with nothing selected: the tile check spoke first
C20_Witness ==
    /\ Running
    /\ last_input = Build
    /\ pre.selected_item = NoItem
    /\ get_tile(pre, Front(pre)) = WallFull
    /\ state.message = MsgExisting
    /\ SameButMessage(state, pre)

(***************************************************************************)
(* Properties of the message (under Spec).                                 *)
(***************************************************************************)
\* the message a Build on s fails softly with, "" when it does not
SoftFailure(s) ==
    CASE get_tile(s, Front(s)) # Empty -> MsgExisting
      [] s.selected_item = NoItem -> MsgNoItem
      [] ~to_tile(s.selected_item).some -> MsgCannotBuild(item_name(s.selected_item))
      [] OTHER -> ""

\* the message a turn that took s to r with input must leave
MessageAfter(s, input, r) ==
    IF input = Build /\ SoftFailure(s) # ""
    THEN SoftFailure(s)
    ELSE IF get_tile(r, Front(r)) # Empty
         THEN MsgFacing(tile_name(get_tile(r, Front(r))))
         ELSE ""

\* C21: the message never survives a turn.  After every non-Quit turn the
\* message is the Build soft-failure message set in that turn or, if none
\* was set, the facing message exactly when the tile at the new player_pos +
\* player_dir is not Empty, and empty otherwise; also for turns that only
\* reorient, open or close a menu, or navigate the inventory.
C21_MessageIsFresh ==
    /\ Running /\ last_input # NoInput =>
          state.message = MessageAfter(pre, last_input, state)
    /\ Running =>
          \A input \in Inputs \ {Quit}, debug \in BOOLEAN :
              LET r == on_input(state, input, 0, debug)
                  other == on_input([state EXCEPT !.message = MsgNoItem],
                                    input, 0, debug)
              IN  /\ r = other
                  /\ r.kind = "Some" =>
                        r.state.message = MessageAfter(state, input, r.state)

\* the soft-failure message of a Build gave way to the facing message in a
\* turn that only opened the menu
C21_Witness ==
    /\ Running
    /\ last_input = OpenInventory
    /\ pre.message = MsgExisting
    /\ state.message = MsgFacing(tile_name(WallFull))

(***************************************************************************)
(* Properties of errors and of termination (under LoopSpec).               *)
(***************************************************************************)
\* the failed calls of init, load, draw, ask_for_input and save
LoopFailures == Failures \ Calls("cleanup")

\* C22: a platform error is never retried.  Once init, load, draw,
\* ask_for_input or save has returned an error the loop calls none of them
\* again (no turn is resolved and nothing is saved after it); the only later
\* platform call is cleanup, and start_game returns Err.
C22_NoRetryAfterError ==
    /\ Cardinality(LoopFailures) <= 1
    /\ \A k \in LoopFailures :
          /\ \A l \in k + 1..Len(log) : log[l].call = "cleanup"
          /\ Len(log) <= k + 1
          /\ pc \in {"cleanup", "returned"}
          /\ loop_res = ResErr(log[k].call)
          /\ status = "running"
          /\ Returned => ret = ResErr(log[k].call)
          /\ Resolved \cap (k..Len(log)) = {}
          /\ log[k].call # "save" /\ Saves # {} => disk = serialize(state)

\* a draw failed after a saved turn: cleanup followed and Err(draw) came back
C22_Witness ==
    /\ Returned
    /\ Saves # {}
    /\ LoopFailures = {Len(log) - 1}
    /\ log[Len(log) - 1] = Call("draw", FALSE)
    /\ LastCall.call = "cleanup"
    /\ ret = ResErr("draw")

\* start_game has no step left: it returned, or a panic unwound through it
Ended == pc \in {"returned", "unwound"}
QuitAnswered == \E k \in 1..Len(log) : log[k] = Answer(Quit)

\* C23: if no platform operation returns an error and the platform delivers
\* a Quit, start_game terminates with cleanup called and Ok returned; and
\* without a Quit input or a platform error the loop never ends.  As a
\* property of the runs that have ended: a run without a platform error has
\* ended only by a Quit, with cleanup called and Ok returned.
C23_QuitTerminates ==
    /\ Ended /\ Failures = {} =>
          /\ QuitAnswered
          /\ Calls("cleanup") # {}
          /\ ret = ResOk
    /\ pc \notin {"init", "load", "draw", "ask", "save"} =>
          QuitAnswered \/ Failures # {}

(***************************************************************************)
(* Properties of the world as a whole (under Spec).                        *)
(***************************************************************************)
\* the cells whose tile the last turn changed
Rewritten ==
    {pos \in Stored(state) \cup Stored(pre) : get_tile(state, pos) # get_tile(pre, pos)}

\* the cell a turn with this input can write: the one in front of the player
\* once a Dir has been taken, the one the player faces for a Build
Target(s, input) ==
    IF IsDir(input) THEN add(s.player_pos, input[2]) ELSE Front(s)

\* C24: generate_tile at the origin being Empty, in every state reachable
\* from State::new() the tile at player_pos is Empty: moves only enter Empty
\* tiles, and digs and builds write only the tile at player_pos + direction,
\* never the player's own cell.
C24_PlayerCellIsEmpty ==
    /\ generate_tile(state_new.player_pos) = Empty
    /\ get_tile(state, state.player_pos) = Empty
    /\ state.player_pos # pre.player_pos => get_tile(pre, state.player_pos) = Empty
    /\ \A pos \in Rewritten :
          /\ pos = Target(pre, last_input)
          /\ pos # pre.player_pos
          /\ pos # state.player_pos

\* the player stands where the generator put a wall, dug out and entered
C24_Witness ==
    /\ Running
    /\ generate_tile(state.player_pos) = WallFull
    /\ get_tile(state, state.player_pos) = Empty
    /\ pre.player_pos # state.player_pos

\* the number of items held, all kinds together
Total(inv) == count_of(inv, "Wall") + count_of(inv, "Wood")

\* from s to r exactly one unit of item was gained (by = 1) or spent (by = -1)
OneUnit(s, r, item, by) ==
    \A i \in Items :
        count_of(r.inventory, i) =
            count_of(s.inventory, i) + (IF i = item THEN by ELSE 0)

\* what a turn from s to r with input may do to the counts
Conserves(s, input, r) ==
    LET front == Target(s, input)
        was == get_tile(s, front)
        is == get_tile(r, front)
        by == Total(r.inventory) - Total(s.inventory)
    IN  /\ by \in {-1, 0, 1}
        /\ by = 1 =>
              /\ IsDir(input) /\ input[2] = s.player_dir
              /\ was \in {WallLow, Wood(0)}
              /\ is = Empty
              /\ OneUnit(s, r, IF was = WallLow THEN "Wall" ELSE "Wood", 1)
        /\ by = -1 =>
              /\ input = Build
              /\ was = Empty
              /\ is = to_tile(s.selected_item).tile
              /\ OneUnit(s, r, s.selected_item, -1)
        /\ by = 0 => OneUnit(s, r, NoItem, 0)

\* C25: items are conserved against tiles.  In a single turn the total
\* inventory count changes by at most one; it grows by one only in a turn
\* that turns the tile in front of the player from WallLow or Wood(0) into
\* Empty, and shrinks by one only in a Build turn that turns the Empty tile
\* in front into the selected item's tile (WallFull for Wall, Wood(5) for
\* Wood); every other turn leaves all counts unchanged.
C25_ItemsConserved ==
    /\ \A tile \in Tiles :
          breaks_into(tile).kind = "Item" <=> tile \in {WallLow, Wood(0)}
    /\ breaks_into(WallLow) = BreakItem("Wall")
    /\ breaks_into(Wood(0)) = BreakItem("Wood")
    /\ to_tile("Wall").tile = WallFull /\ to_tile("Wood").tile = Wood(5)
    /\ Running /\ last_input # NoInput => Conserves(pre, last_input, state)
    /\ Running /\ state.menu = "None" =>
          \A n \in {0, 1}, slot \in HashSlots(state.inventory) :
              LET wooded == set_tile(state, Front(state), Wood(n))
                  input == DirInput(state.player_dir, "No")
                  r == on_input(wooded, input, slot, TRUE)
              IN  /\ r.kind = "Some"
                  /\ Conserves(wooded, input, r.state)
                  /\ Total(r.state.inventory) = Total(state.inventory) + 1 <=> n = 0

\* the last blow on a wall: the tile went from WallLow to Empty and one Wall
\* was gained
C25_Witness ==
    /\ Running
    /\ IsDir(last_input)
    /\ get_tile(pre, Front(pre)) = WallLow
    /\ get_tile(state, Front(pre)) = Empty
    /\ Total(state.inventory) = Total(pre.inventory) + 1

====
